---- MODULE Spec2Model ----
(***************************************************************************)
(* Model of news_volatility_analysis.py: the event-window volatility       *)
(* computation (calculate_event_volatility), the batch loop                *)
(* (analyze_all_events) and the summary (print_summary_stats).             *)
(*                                                                         *)
(* Arithmetic.  Closes are drawn from Closes = {1, 2}, so every ratio      *)
(* close[i]/close[i-1] is 1/2, 1 or 2 and every return is -1/2, 0 or 1.    *)
(* A return r is stored as the integer r * ReturnUnit (ReturnUnit = 2),    *)
(* which is exact on this domain (and exact in binary floating point).     *)
(* A volatility is a sample standard deviation; it is stored as the        *)
(* rational num/den of its square, num = k*Sum(x^2) - Sum(x)^2 and         *)
(* den = k*(k-1) over the k defined values x of the window, so that        *)
(*   volatility = sqrt(num/den) / ReturnUnit,                              *)
(*   volatility > 0  <=>  num > 0,                                         *)
(* and two change-percents compare as the cross products of these          *)
(* rationals.  Dates are day numbers.                                      *)
(***************************************************************************)
EXTENDS Integers, Sequences, FiniteSets, TLC

VARIABLES
    pc,                 \* position of the program
    events_dict,        \* analyze_all_events argument: ticker -> event -> date string
    ticker,             \* position of the outer loop (0 before the first ticker)
    event_no,           \* events of the current ticker already processed
    stock_data,         \* the price frame of the current ticker
    event_date,         \* argument of the last calculate_event_volatility call
    window,             \* argument of the last calculate_event_volatility call
    event_idx,          \* local of calculate_event_volatility (line 76)
    before_returns,     \* local of calculate_event_volatility (line 81)
    after_returns,      \* local of calculate_event_volatility (line 86)
    before_vol,         \* returned by calculate_event_volatility (line 89)
    after_vol,          \* returned by calculate_event_volatility (line 90)
    results,            \* the list of records of analyze_all_events
    pct_change_calls,   \* evaluations of line 73 on the current stock_data
    summary             \* what print_summary_stats derived from results_df

vars == <<pc, events_dict, ticker, event_no, stock_data, event_date, window,
          event_idx, before_returns, after_returns, before_vol, after_vol,
          results, pct_change_calls, summary>>

----------------------------------------------------------------------------
\* Bounds of the model.

MaxTickers == 2
MaxEvents == 2
MaxDate == 6
MaxWindow == 3

\* Program constants.
DefaultWindow == 5
TopN == 3

Closes == {1, 2}

Max(a, b) == IF a >= b THEN a ELSE b
Min(a, b) == IF a <= b THEN a ELSE b

\* Every close divides the largest one, so returns are whole multiples of
\* 1 / ReturnUnit.
ReturnUnit == CHOOSE c \in Closes : \A d \in Closes : d <= c

----------------------------------------------------------------------------
\* Values.

\* A float that is NaN, or the number v / ReturnUnit.
NaN == [nan |-> TRUE, v |-> 0]
Num(x) == [nan |-> FALSE, v |-> x]

\* A volatility that is NaN, or sqrt(num / den) / ReturnUnit.
NaNVol == [nan |-> TRUE, num |-> 0, den |-> 1]
Vol(n, d) == [nan |-> FALSE, num |-> n, den |-> d]
ZeroVol == Vol(0, 1)

\* An event date string: 'YYYY-MM-DD' of day number d, or a malformed string.
DateString(d) == [parseable |-> TRUE, day |-> d]
Malformed == [parseable |-> FALSE, day |-> 0]

NoFrame == [columns |-> {}, index |-> <<>>, Close |-> <<>>, Returns |-> <<>>]
NoSummary == [total |-> 0, increased |-> 0, decreased |-> 0,
              top_increases |-> <<>>, companies |-> <<>>]

\* The elements of the finite set S of integers in ascending order.
Ascending(S) ==
    [i \in 1..Cardinality(S) |->
        CHOOSE x \in S : Cardinality({y \in S : y < x}) = i - 1]

\* A frame as yfinance returns it: an ascending DatetimeIndex and a Close column.
Frame(index, close) ==
    [columns |-> {"Close"}, index |-> index, Close |-> close, Returns |-> <<>>]

\* Frames on n consecutive trading days starting at day 1.
DailyFrame(close) == Frame([i \in 1..Len(close) |-> i], close)

----------------------------------------------------------------------------
\* calculate_event_volatility

\* Series.pct_change(): the first value is NaN, the others close[i]/close[i-1] - 1.
PctChangeFilled(close) ==
    [i \in 1..Len(close) |->
        IF i = 1 THEN Num(0)
        ELSE Num(((close[i] - close[i - 1]) * ReturnUnit) \div close[i - 1])]
PctChange(close) ==
    [i \in 1..Len(close) |->
        IF i = 1 THEN NaN
        ELSE Num(((close[i] - close[i - 1]) * ReturnUnit) \div close[i - 1])]

\* stock_data['Returns'] = ...: the caller's frame gets (or overwrites) a column.
AssignReturnsToClose(sd) ==
    [sd EXCEPT !.Close = [i \in 1..Len(sd.Close) |-> 0]]
AssignReturns(sd) ==
    [sd EXCEPT !.columns = @ \cup {"Returns"}, !.Returns = PctChange(sd.Close)]

\* How many times one call evaluates pct_change on the frame.
PctChangeCallsCached(sd) == IF "Returns" \in sd.columns THEN 0 ELSE 1
PctChangeCalls(sd) == 1

\* Index.searchsorted(value), side='left': the 0-based insertion position.
SearchSortedRight(index, day) ==
    Cardinality({i \in 1..Len(index) : index[i] <= day})
SearchSorted(index, day) ==
    Cardinality({i \in 1..Len(index) : index[i] < day})

BeforeStart(idx, w) == Max(0, idx - w - 1)
BeforeEnd(idx) == idx
AfterStart(idx) == idx
AfterEndInclusive(n, idx, w) == Min(n, idx + w + 1)
AfterEnd(n, idx, w) == Min(n, idx + w)

\* Series.iloc[start:stop] for 0 <= start, 0 <= stop (0-based, half-open, clipped).
Iloc(s, start, stop) == SubSeq(s, start + 1, Min(stop, Len(s)))

RECURSIVE SumSeq(_)
SumSeq(s) == IF s = <<>> THEN 0 ELSE s[1] + SumSeq(Tail(s))

IsNumber(r) == ~r.nan

\* Series.std(): skipna, ddof=1; NaN with fewer than two defined values.
Std(s) ==
    LET xs == SelectSeq(s, IsNumber)
        k == Len(xs)
        sum == SumSeq([i \in 1..k |-> xs[i].v])
        squares == SumSeq([i \in 1..k |-> xs[i].v * xs[i].v])
    IN IF k < 2 THEN NaNVol ELSE Vol(k * squares - sum * sum, k * (k - 1))

\* Lines 73-92, for a date string that pd.to_datetime accepts.
calculate_event_volatility(sd, date, w) ==
    LET data == AssignReturns(sd)
        idx == SearchSorted(data.index, date.day)
        before == Iloc(data.Returns, BeforeStart(idx, w), BeforeEnd(idx))
        after == Iloc(data.Returns, AfterStart(idx), AfterEnd(Len(data.index), idx, w))
    IN [stock_data |-> data,
        pct_change_calls |-> PctChangeCalls(sd),
        event_idx |-> idx,
        before_returns |-> before,
        after_returns |-> after,
        before_vol |-> Std(before),
        after_vol |-> Std(after)]

----------------------------------------------------------------------------
\* analyze_all_events, the loop body

\* float(v) if not pd.isna(v) else 0
ToValue(v) == IF ~v.nan THEN v ELSE ZeroVol

\* before_vol_value > 0 and after_vol_value > 0
GuardNonNegative(b, a) == b.num >= 0 /\ a.num >= 0
Guard(b, a) == b.num > 0 /\ a.num > 0

Record(tk, ev, date, b, a) ==
    [Ticker |-> tk, Event |-> ev, Date |-> date,
     Before_Volatility |-> b, After_Volatility |-> a]

PrependRecord(res, rec) == <<rec>> \o res
AppendRecord(res, rec) == Append(res, rec)

\* Lines 113-128.
Emit(res, tk, ev, date, bv, av) ==
    IF Guard(ToValue(bv), ToValue(av))
    THEN AppendRecord(res, Record(tk, ev, date, ToValue(bv), ToValue(av)))
    ELSE res

\* Volatility_Change and Volatility_Change_Pct are functions of the two stored
\* volatilities; they are compared through the squares.
ChangeSign(r) ==
    LET up == r.After_Volatility.num * r.Before_Volatility.den
        down == r.Before_Volatility.num * r.After_Volatility.den
    IN IF up > down THEN 1 ELSE IF up < down THEN 0 - 1 ELSE 0

\* r1['Volatility_Change_Pct'] > r2['Volatility_Change_Pct'], for stored records.
PctGreater(r1, r2) ==
    r1.After_Volatility.num * r1.Before_Volatility.den
        * r2.After_Volatility.den * r2.Before_Volatility.num
    > r2.After_Volatility.num * r2.Before_Volatility.den
        * r1.After_Volatility.den * r1.Before_Volatility.num

PctEqual(r1, r2) == ~PctGreater(r1, r2) /\ ~PctGreater(r2, r1)

----------------------------------------------------------------------------
\* print_summary_stats

\* DataFrame.nlargest(n, column), keep='first': the row labels of the n largest
\* values in descending order, equal values in frame order.
NLargestKeepLast(n, df) ==
    LET before(j, i) == PctGreater(df[j], df[i]) \/ (PctEqual(df[j], df[i]) /\ j > i)
        rank(i) == Cardinality({j \in 1..Len(df) : before(j, i)})
    IN [k \in 1..Min(n, Len(df)) |-> CHOOSE i \in 1..Len(df) : rank(i) = k - 1]
NLargest(n, df) ==
    LET before(j, i) == PctGreater(df[j], df[i]) \/ (PctEqual(df[j], df[i]) /\ j < i)
        rank(i) == Cardinality({j \in 1..Len(df) : before(j, i)})
    IN [k \in 1..Min(n, Len(df)) |-> CHOOSE i \in 1..Len(df) : rank(i) = k - 1]

\* Series.unique(): the distinct values in order of first appearance.
Unique(s) ==
    LET first == {i \in 1..Len(s) : \A j \in 1..(i - 1) : s[j] # s[i]}
        pos == Ascending(first)
    IN [k \in 1..Len(pos) |-> s[pos[k]]]

\* Lines 197-218 on a table with rows.  The mean and the medians are printed,
\* never stored or branched on; what is kept here is the counts, the selection
\* and the groups.
Summarise(df) ==
    [total |-> Len(df),
     increased |-> Cardinality({i \in 1..Len(df) : ChangeSign(df[i]) > 0}),
     decreased |-> Cardinality({i \in 1..Len(df) : ChangeSign(df[i]) < 0}),
     top_increases |-> NLargest(TopN, df),
     companies |-> Unique([i \in 1..Len(df) |-> df[i].Ticker])]

----------------------------------------------------------------------------
\* The batch run: analyze_all_events(events_dict), then print_summary_stats.

\* What the price provider can return for a ticker: no rows (the download
\* failed), too few rows for any window, flat prices, a moving series on
\* consecutive days, one whose index skips day 4, and one that starts late.
Provider ==
    {Frame(<<>>, <<>>),
     DailyFrame(<<1, 2>>),
     DailyFrame(<<1, 1, 1, 1, 1, 1>>),
     DailyFrame(<<1, 2, 1, 1, 2, 1>>),
     Frame(<<1, 2, 3, 5, 6, 7>>, <<2, 1, 1, 2, 2, 1>>),
     Frame(<<2, 3, 4, 5, 6, 7>>, <<1, 2, 2, 1, 2, 2>>)}

\* The date strings of the event table: a malformed one and a trading day.
EventDates == {Malformed, DateString(4)}

SeqsUpTo(S, n) == UNION {[1..k -> S] : k \in 0..n}

Init ==
    /\ pc = "iter"
    /\ events_dict \in UNION {[1..k -> SeqsUpTo(EventDates, MaxEvents)] : k \in 0..MaxTickers}
    /\ ticker = 0
    /\ event_no = 0
    /\ stock_data = NoFrame
    /\ event_date = Malformed
    /\ window = DefaultWindow
    /\ event_idx = 0
    /\ before_returns = <<>>
    /\ after_returns = <<>>
    /\ before_vol = NaNVol
    /\ after_vol = NaNVol
    /\ results = <<>>
    /\ pct_change_calls = 0
    /\ summary = NoSummary

\* Lines 102-104: the next ticker of the dict, and its price frame.
get_stock_data ==
    /\ pc = "iter"
    /\ ticker < Len(events_dict)
    /\ ticker' = ticker + 1
    /\ event_no' = 0
    /\ \E data \in Provider : stock_data' = data
    /\ pct_change_calls' = 0
    /\ pc' = "events"
    /\ UNCHANGED <<events_dict, event_date, window, event_idx, before_returns,
                   after_returns, before_vol, after_vol, results, summary>>

\* Lines 108-130: one pass of the inner loop on a date pd.to_datetime accepts.
process_event ==
    /\ pc = "events"
    /\ event_no < Len(events_dict[ticker])
    /\ events_dict[ticker][event_no + 1].parseable
    /\ LET date == events_dict[ticker][event_no + 1]
           out == calculate_event_volatility(stock_data, date, DefaultWindow)
       IN /\ event_date' = date
          /\ window' = DefaultWindow
          /\ stock_data' = out.stock_data
          /\ pct_change_calls' = pct_change_calls + out.pct_change_calls
          /\ event_idx' = out.event_idx
          /\ before_returns' = out.before_returns
          /\ after_returns' = out.after_returns
          /\ before_vol' = out.before_vol
          /\ after_vol' = out.after_vol
          /\ results' = Emit(results, ticker, event_no + 1, date,
                             out.before_vol, out.after_vol)
    /\ event_no' = event_no + 1
    /\ UNCHANGED <<pc, events_dict, ticker, summary>>

\* Line 70 raises on a malformed date string; nothing catches it, so it leaves
\* calculate_event_volatility and analyze_all_events.
date_error ==
    /\ pc = "events"
    /\ event_no < Len(events_dict[ticker])
    /\ ~events_dict[ticker][event_no + 1].parseable
    /\ event_date' = events_dict[ticker][event_no + 1]
    /\ window' = DefaultWindow
    /\ pc' = "raised"
    /\ UNCHANGED <<events_dict, ticker, event_no, stock_data, event_idx,
                   before_returns, after_returns, before_vol, after_vol,
                   results, pct_change_calls, summary>>

\* The inner loop is exhausted.
next_ticker ==
    /\ pc = "events"
    /\ event_no = Len(events_dict[ticker])
    /\ pc' = "iter"
    /\ UNCHANGED <<events_dict, ticker, event_no, stock_data, event_date, window,
                   event_idx, before_returns, after_returns, before_vol,
                   after_vol, results, pct_change_calls, summary>>

\* Line 132: the outer loop is exhausted, results_df = pd.DataFrame(results).
return_results ==
    /\ pc = "iter"
    /\ ticker = Len(events_dict)
    /\ pc' = "returned"
    /\ UNCHANGED <<events_dict, ticker, event_no, stock_data, event_date, window,
                   event_idx, before_returns, after_returns, before_vol,
                   after_vol, results, pct_change_calls, summary>>

\* Lines 191-220.  pd.DataFrame([]) has no columns, so on an empty table
\* results_df['Volatility_Change_Pct'] (line 199) raises KeyError.
print_summary_stats ==
    /\ pc = "returned"
    /\ IF results = <<>>
       THEN /\ pc' = "summary_raised"
            /\ summary' = summary
       ELSE /\ pc' = "summary_done"
            /\ summary' = Summarise(results)
    /\ UNCHANGED <<events_dict, ticker, event_no, stock_data, event_date, window,
                   event_idx, before_returns, after_returns, before_vol,
                   after_vol, results, pct_change_calls>>

Next ==
    \/ get_stock_data
    \/ process_event
    \/ date_error
    \/ next_ticker
    \/ return_results
    \/ print_summary_stats

Spec == Init /\ [][Next]_vars

----------------------------------------------------------------------------
\* One evaluation on its own: calculate_event_volatility(stock_data, event_date,
\* window) on any frame, date and window, followed by the loop body's guard.

\* Every frame whose index is an ascending run of days of 1..MaxDate.
Frames ==
    UNION {{Frame(Ascending(S), close) : close \in [1..Cardinality(S) -> Closes]} :
             S \in SUBSET (1..MaxDate)}

Windows == (1..MaxWindow) \cup {DefaultWindow}

InitCall ==
    /\ pc = "call"
    /\ events_dict = <<>>
    /\ ticker = 0
    /\ event_no = 0
    /\ stock_data \in Frames
    /\ event_date \in {DateString(d) : d \in 0..(MaxDate + 1)} \cup {Malformed}
    /\ window \in Windows
    /\ event_idx = 0
    /\ before_returns = <<>>
    /\ after_returns = <<>>
    /\ before_vol = NaNVol
    /\ after_vol = NaNVol
    /\ results = <<>>
    /\ pct_change_calls = 0
    /\ summary = NoSummary

\* Lines 70-92 on a date pd.to_datetime accepts.
call_returns ==
    /\ pc = "call"
    /\ event_date.parseable
    /\ LET out == calculate_event_volatility(stock_data, event_date, window)
       IN /\ stock_data' = out.stock_data
          /\ pct_change_calls' = pct_change_calls + out.pct_change_calls
          /\ event_idx' = out.event_idx
          /\ before_returns' = out.before_returns
          /\ after_returns' = out.after_returns
          /\ before_vol' = out.before_vol
          /\ after_vol' = out.after_vol
    /\ pc' = "guard"
    /\ UNCHANGED <<events_dict, ticker, event_no, event_date, window, results, summary>>

\* Line 70 raises on a malformed date string.
call_raises ==
    /\ pc = "call"
    /\ ~event_date.parseable
    /\ pc' = "raised"
    /\ UNCHANGED <<events_dict, ticker, event_no, stock_data, event_date, window,
                   event_idx, before_returns, after_returns, before_vol,
                   after_vol, results, pct_change_calls, summary>>

\* Lines 113-128 on the returned pair.
guard_and_append ==
    /\ pc = "guard"
    /\ results' = Emit(results, ticker, event_no + 1, event_date, before_vol, after_vol)
    /\ event_no' = event_no + 1
    /\ pc' = "done"
    /\ UNCHANGED <<events_dict, ticker, stock_data, event_date, window, event_idx,
                   before_returns, after_returns, before_vol, after_vol,
                   pct_change_calls, summary>>

NextCall ==
    \/ call_returns
    \/ call_raises
    \/ guard_and_append

SpecCall == InitCall /\ [][NextCall]_vars

----------------------------------------------------------------------------
\* Properties.

\* A pass of the inner loop has just completed.
ProcessedEvent == pc = "events" /\ event_no' = event_no + 1

Defined(v) == ~v.nan /\ v.num > 0

\* C1: an event appends exactly one record when both window volatilities are
\* defined and strictly positive and appends nothing otherwise; every stored
\* record has Before_Volatility > 0 and After_Volatility > 0, so none holds the
\* 0 that stands in for an undefined volatility.
C1_RecordsPositive ==
    /\ [](\A i \in 1..Len(results) :
            /\ Defined(results[i].Before_Volatility)
            /\ Defined(results[i].After_Volatility))
    /\ [][ProcessedEvent =>
            IF Defined(before_vol') /\ Defined(after_vol')
            THEN /\ Len(results') = Len(results) + 1
                 /\ SubSeq(results', 1, Len(results)) = results
                 /\ results'[Len(results')].Before_Volatility = before_vol'
                 /\ results'[Len(results')].After_Volatility = after_vol'
            ELSE results' = results]_vars

\* A record of the first ticker is stored and an event of the second ticker was
\* skipped because a window had no defined volatility.
C1_Witness ==
    /\ pc = "events"
    /\ ticker = 2
    /\ event_no >= 1
    /\ before_vol.nan
    /\ results # <<>>
    /\ \A i \in 1..Len(results) : results[i].Ticker = 1

\* C2: the anchor is the smallest position whose date is >= the event date (the
\* series length when there is none), the before-window is exactly the return
\* positions [max(0, p - w - 1), p) and the after-window [p, min(n, p + w)).
C2_WindowRanges ==
    pc \in {"guard", "done"} =>
        LET n == Len(stock_data.index)
            p == event_idx
            w == window
            lo == IF p - w - 1 > 0 THEN p - w - 1 ELSE 0
            hi == IF p + w < n THEN p + w ELSE n
        IN /\ p \in 0..n
           /\ \A i \in 1..p : stock_data.index[i] < event_date.day
           /\ p < n => stock_data.index[p + 1] >= event_date.day
           /\ before_returns = [k \in 1..(p - lo) |-> stock_data.Returns[lo + k]]
           /\ after_returns = [k \in 1..(hi - p) |-> stock_data.Returns[p + k]]

\* The event date is a trading day in the middle of the series and neither
\* window is clipped.
C2_Witness ==
    /\ pc = "guard"
    /\ event_idx < Len(stock_data.index)
    /\ stock_data.index[event_idx + 1] = event_date.day
    /\ event_idx - window - 1 > 0
    /\ event_idx + window < Len(stock_data.index)

C10_NoRecordNearEnds ==
    (pc = "done" /\ window = DefaultWindow) =>
        LET n == Len(stock_data.index)
            day == event_date.day
        IN /\ (event_idx < 3 \/ event_idx > n - 2) => results = <<>>
           /\ (n > 0 /\ (day <= stock_data.index[1] \/ day > stock_data.index[n]))
                 => results = <<>>

\* The anchor is at position 2 of a series of five or more closes: the
\* after-window has a positive volatility, the before-window holds one defined
\* return, and no record is stored.
C10_Witness ==
    /\ pc = "done"
    /\ window = DefaultWindow
    /\ event_idx = 2
    /\ Len(stock_data.index) >= 5
    /\ Defined(after_vol)
    /\ before_vol.nan
    /\ results = <<>>

\* C3 as stated: print_summary_stats on an empty results table completes.
C3_EmptySummaryCompletes ==
    (results = <<>> /\ pc \in {"summary_done", "summary_raised"}) => pc = "summary_done"

\* C4 as stated: no series and no event aborts the batch.
C4_BatchNotAborted == pc # "raised"

C6_AppendOnlyInOrder ==
    /\ [][/\ Len(results') \in {Len(results), Len(results) + 1}
          /\ SubSeq(results', 1, Len(results)) = results]_vars
    /\ [](/\ \A i \in 1..Len(results) :
               /\ results[i].Ticker \in 1..Len(events_dict)
               /\ results[i].Event \in 1..Len(events_dict[results[i].Ticker])
               /\ results[i].Date = events_dict[results[i].Ticker][results[i].Event]
          /\ \A i, j \in 1..Len(results) :
               i < j => \/ results[i].Ticker < results[j].Ticker
                        \/ /\ results[i].Ticker = results[j].Ticker
                           /\ results[i].Event < results[j].Event)

\* Records of two tickers are stored, two of them from one ticker.
C6_Witness ==
    /\ Len(results) >= 3
    /\ results[1].Ticker # results[Len(results)].Ticker

\* C7: the top-3 selection holds min(3, size) distinct rows in descending order
\* of change-percent, no excluded row exceeds an included one, and rows with
\* equal change-percent are selected and listed in table order.
C7_TopN ==
    pc = "summary_done" =>
        LET top == summary.top_increases
            rows == 1..Len(results)
            included == {top[k] : k \in 1..Len(top)}
        IN /\ Len(top) = (IF Len(results) < 3 THEN Len(results) ELSE 3)
           /\ included \subseteq rows
           /\ Cardinality(included) = Len(top)
           /\ \A k, l \in 1..Len(top) :
                k < l => /\ ~PctGreater(results[top[l]], results[top[k]])
                         /\ PctEqual(results[top[l]], results[top[k]]) => top[k] < top[l]
           /\ \A i \in rows \ included : \A k \in 1..Len(top) :
                /\ ~PctGreater(results[i], results[top[k]])
                /\ PctEqual(results[i], results[top[k]]) => top[k] < i

\* Four records, the largest change-percent not in the first row, and a tie
\* between a selected row and the excluded one.
C7_Witness ==
    /\ pc = "summary_done"
    /\ Len(results) = 4
    /\ summary.top_increases[1] # 1
    /\ \E i \in 1..4 : \E k \in 1..3 :
          /\ \A l \in 1..3 : summary.top_increases[l] # i
          /\ PctEqual(results[i], results[summary.top_increases[k]])

\* C9 as stated: evaluating an event leaves the caller's frame as it was.
C9_FrameUnchanged ==
    [][ProcessedEvent => stock_data' = stock_data]_vars

\* C9 amended: evaluating an event leaves the dates and the closes of the
\* caller's frame unchanged and adds the Returns column to its fields.
C9_FrameGainsReturns ==
    [][ProcessedEvent =>
         /\ stock_data'.index = stock_data.index
         /\ stock_data'.Close = stock_data.Close
         /\ stock_data'.columns = stock_data.columns \cup {"Returns"}]_vars

C9_Witness ==
    /\ pc = "events"
    /\ event_no >= 1
    /\ Len(stock_data.Close) > 1
    /\ stock_data.columns = {"Close", "Returns"}

====
